---- MODULE Spec2Model ----
(***************************************************************************)
(* Production-line tracker: the OCR endpoint's rate calculation, the       *)
(* client's scan pipeline (capture, timestamp confirmation, asynchronous   *)
(* OCR call, append) and the manual correction of a log entry.             *)
(*                                                                         *)
(* Conventions.  A JavaScript value that may be null/undefined is a        *)
(* sequence of length at most one: <<>> is null, <<v>> is the value v.     *)
(* Strings that the program parses character by character (the correction  *)
(* input) are sequences of one-character strings.  The Korean status       *)
(* labels of the client are written in romanised form.                     *)
(***************************************************************************)
EXTENDS Integers, Sequences, FiniteSets, Bags, TLC

(* ------------------------------ bounds -------------------------------- *)
MaxScans == 2       \* OCR calls answered by the endpoint in one behaviour
MaxCalls == 2       \* OCR calls in flight at the same time
MaxLoading == 1     \* selected files whose image is still being decoded
MaxTick == 1        \* half-hour steps of the photo time grid: 0:00, 0:30, ...

(* -------------------------- program constants ------------------------- *)
MsPerMinute == 60000
WindowMinutes == 60
NormalThreshold == 50
BottlesPerBox == 100

None == <<>>
Some(x) == <<x>>

(* a division that drops the fraction instead of rounding it *)
Truncate(num, den) == num \div den

(* Math.round(num / den) for den > 0: halves round towards +infinity. *)
Round(num, den) == (2 * num + den) \div (2 * den)

Max(a, b) == IF a >= b THEN a ELSE b

(* new Date(year, month - 1, day, hours, minutes, 0).getTime(), for dates   *)
(* of one month: milliseconds counted from the start of that month, which  *)
(* differs from getTime() by a constant and so keeps all differences.      *)
DateMs(photoDate, photoTime) ==
    (((photoDate[3] * 24) + photoTime[1]) * 60 + photoTime[2]) * MsPerMinute

PhotoDates == {<<2025, 11, 1>>}
PhotoTimes == {<<k \div 2, 30 * (k % 2)>> : k \in 0..MaxTick}
Timestamps == {DateMs(d, t) : d \in PhotoDates, t \in PhotoTimes}

(* ------------------------ the OCR endpoint (POST) ---------------------- *)

(* a window that is open at the top *)
InWindowNoUpperEnd(timeDiffMs) == timeDiffMs > 0

(* timeDiffMinutes > 0 && timeDiffMinutes < 60, on milliseconds *)
InWindow(timeDiffMs) ==
    timeDiffMs > 0 /\ timeDiffMs < WindowMinutes * MsPerMinute

(* status = bpm >= 50 ? "normal" : "slow" *)
StatusOf(bpm) == IF bpm >= NormalThreshold THEN "normal" ELSE "slow"

(* parsedData.key for a nullable member: None when the parsed value has no *)
(* such member (undefined) or has it as null                               *)
Field(parsedData, key) ==
    IF key \in DOMAIN parsedData THEN parsedData[key] ELSE None

(* The BPM block of POST.  previousBottleCount and previousTimestamp are   *)
(* None when the request does not carry them.  A bottleCount that is       *)
(* undefined passes the !== null test, makes bottleDiff NaN and fails      *)
(* bottleDiff >= 0: the outcome is that of a null bottleCount.             *)
PostRate(parsedData, previousBottleCount, previousTimestamp, currentTime) ==
    LET unknown == [bpm |-> None, status |-> "unknown"] IN
    IF /\ Field(parsedData, "isRelevant") = Some(TRUE)
       /\ Field(parsedData, "bottleCount") # None
       /\ previousBottleCount # None
       /\ previousTimestamp # None
       /\ previousTimestamp[1] # 0
    THEN LET timeDiffMs == currentTime - previousTimestamp[1]
             bottleDiff == parsedData.bottleCount[1] - previousBottleCount[1]
         IN  IF InWindow(timeDiffMs) /\ bottleDiff >= 0
             THEN LET bpm == Round(bottleDiff * MsPerMinute, timeDiffMs)
                  IN  [bpm |-> Some(bpm), status |-> StatusOf(bpm)]
             ELSE unknown
    ELSE unknown

(* a reading without a relevance flag taken as relevant *)
OrTrue(v) == IF v = None THEN TRUE ELSE v[1]

(* parsedData.isRelevant ?? false *)
OrFalse(v) == IF v = None THEN FALSE ELSE v[1]

(* parsedData.summary ?? "" *)
SummaryOf(parsedData) ==
    IF "summary" \in DOMAIN parsedData THEN parsedData.summary ELSE ""

(* responseData of POST for a reply that parsed to parsedData *)
ResponseData(parsedData, rate) ==
    [isRelevant  |-> OrFalse(Field(parsedData, "isRelevant")),
     boxCount    |-> Field(parsedData, "boxCount"),
     bottleCount |-> Field(parsedData, "bottleCount"),
     bpm         |-> rate.bpm,
     status      |-> rate.status,
     summary     |-> SummaryOf(parsedData)]

(* responseData of the line/lot POST *)
LotResponseData(parsedData) ==
    [isRelevant        |-> OrFalse(Field(parsedData, "isRelevant")),
     operatingLine     |-> Field(parsedData, "operatingLine"),
     productionDate    |-> Field(parsedData, "productionDate"),
     plannedQuantity   |-> Field(parsedData, "plannedQuantity"),
     productName       |-> Field(parsedData, "productName"),
     completedQuantity |-> Field(parsedData, "completedQuantity"),
     lotNo             |-> Field(parsedData, "lotNo"),
     summary           |-> SummaryOf(parsedData)]

(* ----------------------------- the reply text -------------------------- *)
(* A reply text is a sequence of lexical tokens; the white space between   *)
(* tokens is not represented.  "{" and "}" are braces, "fence json" is the *)
(* three backquotes followed by json, "fence" three backquotes, "prose" a  *)
(* run of words without braces or fences, "null" and "45" JSON scalars,    *)
(* and a name of MemberLists the text of a non-empty list of JSON members. *)

MemberLists ==
    [ counter  |-> [isRelevant |-> Some(TRUE), boxCount |-> Some(45),
                    bottleCount |-> Some(4523), summary |-> "counter"],
      boxOnly  |-> [boxCount |-> Some(45)],
      nullFlag |-> [isRelevant |-> None, bottleCount |-> None,
                    summary |-> "desk"],
      lot      |-> [isRelevant |-> Some(TRUE), operatingLine |-> Some("A"),
                    productionDate |-> Some("2025-11-01"),
                    plannedQuantity |-> Some(5000), productName |-> Some("cola"),
                    completedQuantity |-> Some(3450), lotNo |-> Some("L1"),
                    summary |-> "work order"],
      lotOnly  |-> [lotNo |-> Some("L1")] ]

Tokens == {"{", "}", "fence json", "fence", "prose", "null", "45"} \cup DOMAIN MemberLists

(* the summary prefix of the parse-failure body *)
ParseFailPrefix == "cannot parse: "

(* a parse-failure body whose summary is the reply text itself *)
ParseFailEcho(textContent) ==
    [isRelevant  |-> FALSE,
     boxCount    |-> None,
     bottleCount |-> None,
     bpm         |-> None,
     status      |-> "unknown",
     summary     |-> textContent,
     rawText     |-> textContent]

(* the body returned when JSON.parse of the reply throws *)
ParseFailData(textContent) ==
    [isRelevant  |-> FALSE,
     boxCount    |-> None,
     bottleCount |-> None,
     bpm         |-> None,
     status      |-> "unknown",
     summary     |-> <<ParseFailPrefix>> \o textContent,
     rawText     |-> textContent]

(* the same of the line/lot POST *)
LotParseFailData(textContent) ==
    [isRelevant        |-> FALSE,
     operatingLine     |-> None,
     productionDate    |-> None,
     plannedQuantity   |-> None,
     productName       |-> None,
     completedQuantity |-> None,
     lotNo             |-> None,
     summary           |-> <<ParseFailPrefix>> \o textContent,
     rawText           |-> textContent]

(* textContent.match of the fenced-block pattern, whose group is lazy: the *)
(* leftmost "fence json" and the nearest three backquotes after it, those  *)
(* of a second "fence json" included                                       *)
JsonMatch(textContent) ==
    LET opens  == {i \in 1..Len(textContent) : textContent[i] = "fence json"}
        first  == CHOOSE i \in opens : \A k \in opens : i <= k
        closes == {j \in 1..Len(textContent) :
                      j > first /\ textContent[j] \in {"fence", "fence json"}}
        close  == CHOOSE j \in closes : \A k \in closes : j <= k
    IN  IF opens = {} \/ closes = {} THEN None
        ELSE Some(SubSeq(textContent, first + 1, close - 1))

(* textContent.match of the brace pattern, which is greedy: from the       *)
(* leftmost "{" to the last "}"                                            *)
BraceMatch(textContent) ==
    LET opens  == {i \in 1..Len(textContent) : textContent[i] = "{"}
        first  == CHOOSE i \in opens : \A k \in opens : i <= k
        closes == {j \in 1..Len(textContent) : j > first /\ textContent[j] = "}"}
        last   == CHOOSE j \in closes : \A k \in closes : k <= j
    IN  IF opens = {} \/ closes = {} THEN None
        ELSE Some(SubSeq(textContent, first, last))

(* jsonStr: the fenced block, else the brace block, else the whole text *)
JsonStr(textContent) ==
    IF JsonMatch(textContent) # None THEN JsonMatch(textContent)[1]
    ELSE IF BraceMatch(textContent) # None THEN BraceMatch(textContent)[1]
    ELSE textContent

(* JSON.parse(jsonStr): an object, null, another scalar, or a SyntaxError. *)
(* A scalar has no members: reading one of it gives undefined.             *)
JsonParse(jsonStr) ==
    IF jsonStr = <<"null">> THEN [kind |-> "null"]
    ELSE IF jsonStr = <<"45">> THEN [kind |-> "value", value |-> <<>>]
    ELSE IF jsonStr = <<"{", "}">> THEN [kind |-> "value", value |-> <<>>]
    ELSE IF /\ Len(jsonStr) = 3
            /\ jsonStr[1] = "{" /\ jsonStr[3] = "}"
            /\ jsonStr[2] \in DOMAIN MemberLists
         THEN [kind |-> "value", value |-> MemberLists[jsonStr[2]]]
    ELSE [kind |-> "throws"]

(* the message of the TypeError thrown by parsedData.isRelevant on null *)
NullMemberMessage == "Cannot read properties of null"

(* a catch block that does not classify the error *)
PostErrorUnclassified(errorMessage) ==
    [status |-> 500, body |-> [error |-> "UNKNOWN_ERROR", message |-> errorMessage]]

(* the catch block of POST: error identifier and HTTP status by message *)
PostError(errorMessage) ==
    CASE errorMessage = "API key not valid"  ->
            [status |-> 403, body |-> [error |-> "API_KEY_INVALID", message |-> "key invalid"]]
      [] errorMessage = "SAFETY"             ->
            [status |-> 200, body |-> [error |-> "SAFETY_BLOCKED", message |-> "blocked"]]
      [] errorMessage = "RESOURCE_EXHAUSTED" ->
            [status |-> 429, body |-> [error |-> "QUOTA_EXCEEDED", message |-> "quota"]]
      [] OTHER                               ->
            [status |-> 500, body |-> [error |-> "SERVER_ERROR", message |-> "server error"]]

(* POST from the reply text on *)
PostText(textContent, previousBottleCount, previousTimestamp, currentTime) ==
    LET parsed == JsonParse(JsonStr(textContent)) IN
    CASE parsed.kind = "throws" ->
            [status |-> 200, body |-> ParseFailData(textContent)]
      [] parsed.kind = "null" -> PostError(NullMemberMessage)
      [] OTHER ->
            [status |-> 200,
             body   |-> ResponseData(parsed.value,
                            PostRate(parsed.value, previousBottleCount,
                                     previousTimestamp, currentTime))
                        @@ [rawText |-> textContent]]

(* the line/lot POST from the reply text on *)
LotPostText(textContent) ==
    LET parsed == JsonParse(JsonStr(textContent)) IN
    CASE parsed.kind = "throws" ->
            [status |-> 200, body |-> LotParseFailData(textContent)]
      [] parsed.kind = "null" -> PostError(NullMemberMessage)
      [] OTHER ->
            [status |-> 200,
             body   |-> LotResponseData(parsed.value) @@ [rawText |-> textContent]]

(* What the vision model does with one request: a reply text, or a thrown  *)
(* error.  "json" is a reply text that parses to the object parsedData,    *)
(* "unparsable" one that does not parse.                                    *)
PostResponse(outcome, previousBottleCount, previousTimestamp, currentTime) ==
    CASE outcome.type = "text" ->
            PostText(outcome.text, previousBottleCount, previousTimestamp,
                     currentTime)
      [] outcome.type = "json" ->
            [status |-> 200,
             body   |-> ResponseData(outcome.parsedData,
                            PostRate(outcome.parsedData, previousBottleCount,
                                     previousTimestamp, currentTime))]
      [] outcome.type = "unparsable" ->
            [status |-> 200, body |-> ParseFailData(outcome.text)]
      [] OTHER -> PostError(outcome.message)

(* ------------------------------ the client ----------------------------- *)

VARIABLES
    logs,                   \* LogEntry[]
    isScanning,
    editingLog,             \* None or <<id>> of the entry being corrected
    editValue,              \* content of the correction input
    capturedImage,          \* "null" or an image
    showTimeInputDialog,
    photoTime,              \* None ("") or <<hours, minutes>>
    photoDate,              \* None ("") or <<year, month, day>>
    ocrError,               \* "null" or a message
    lastIrrelevantSummary,  \* "null" or a summary
    loading,                \* bag of files read/decoded by handleImageCapture
    fileDialogOpen,         \* the browser's file chooser opened by handleCameraScan
    calls,                  \* bag of suspended handleConfirmPhotoTime calls
    clock                   \* Date.now() of the browser, in fetch round trips

vars == <<logs, isScanning, editingLog, editValue, capturedImage,
          showTimeInputDialog, photoTime, photoDate, ocrError,
          lastIrrelevantSummary, loading, fileDialogOpen, calls, clock>>

(* const relevantLogs = logs.filter(log => log.isRelevant) *)
RelevantLogs(ls) == SelectSeq(ls, LAMBDA log : log.isRelevant)

(* the relevant entry with the greatest timestamp *)
LatestLogByTimestamp(ls) ==
    LET rel == RelevantLogs(ls)
    IN  IF Len(rel) = 0 THEN None
        ELSE Some(rel[CHOOSE i \in 1..Len(rel) :
                        \A j \in 1..Len(rel) : rel[j].timestamp <= rel[i].timestamp])

(* relevantLogs[relevantLogs.length - 1], None when there is none *)
LatestLog(ls) ==
    LET rel == RelevantLogs(ls)
    IN  IF Len(rel) = 0 THEN None ELSE Some(rel[Len(rel)])

(* the dashboard's figures: latestLog?.bpm || 0, latestLog?.boxes || 0,    *)
(* latestLog?.bottles || 0 and latestLog?.timestamp                        *)
CurrentBpm(ls) == IF LatestLog(ls) = None THEN 0 ELSE LatestLog(ls)[1].bpm
TotalBoxes(ls) == IF LatestLog(ls) = None THEN 0 ELSE LatestLog(ls)[1].boxes
TotalBottles(ls) == IF LatestLog(ls) = None THEN 0 ELSE LatestLog(ls)[1].bottles
LastScanTime(ls) ==
    IF LatestLog(ls) = None THEN None ELSE Some(LatestLog(ls)[1].timestamp)

GetStatusText(status) ==
    IF status \in {"normal", "jeongsang"} THEN "jeongsang"
    ELSE IF status \in {"slow", "neurim"} THEN "neurim"
    ELSE "alsueopseum"

(* an analyzeImage that looks at the HTTP status only *)
AnalyzeImageErrorByStatus(response) ==
    IF response.status < 200 \/ response.status > 299
    THEN Some(response.body.message)
    ELSE None

(* analyzeImage: the thrown message, or None when the data is returned *)
AnalyzeImageError(response) ==
    IF response.status < 200 \/ response.status > 299
    THEN LET e == response.body.error IN
         CASE e = "API_KEY_MISSING" -> Some("client: key missing")
           [] e = "API_KEY_INVALID" -> Some("client: key invalid")
           [] e = "QUOTA_EXCEEDED"  -> Some("client: quota")
           [] e = "SAFETY_BLOCKED"  -> Some("client: blocked")
           [] OTHER                 -> Some(response.body.message)
    ELSE IF "error" \in DOMAIN response.body
         THEN Some(response.body.message)
         ELSE None

(* x || 0 on a nullable number *)
OrZero(v) == IF v = None THEN 0 ELSE v[1]

(* result.isRelevant as a condition: undefined is falsy *)
IsRelevantResult(result) ==
    "isRelevant" \in DOMAIN result /\ result.isRelevant

(* result.summary *)
ResultSummary(result) ==
    IF "summary" \in DOMAIN result THEN result.summary ELSE "undefined"

(* the entry appended for a reading judged not relevant *)
IrrelevantLog(result, call, id) ==
    [id         |-> id,
     timestamp  |-> DateMs(call.photoDate, call.photoTime),
     boxes      |-> 0,
     bottles    |-> 0,
     bpm        |-> 0,
     status     |-> "alsueopseum",
     imageUrl   |-> call.capturedImage,
     summary    |-> ResultSummary(result),
     isRelevant |-> FALSE]

(* the BPM of a relevant reading: the endpoint's value, or when that is 0   *)
(* or null the client's own calculation against the previous relevant log  *)
(* of the render that started the call                                      *)
ClientBpm(result, bottles, timestamp, previousLog) ==
    LET bpm == OrZero(result.bpm) IN
    IF bpm = 0 /\ previousLog # None
    THEN LET timeDiffMs  == timestamp - previousLog[1].timestamp
             bottlesDiff == bottles - previousLog[1].bottles
         IN  IF timeDiffMs > 0 /\ bottlesDiff > 0
             THEN Round(bottlesDiff * MsPerMinute, timeDiffMs)
             ELSE bpm
    ELSE bpm

(* an entry whose bottle count is always derived from its box count *)
RelevantLogBottlesFromBoxes(result, call, id) ==
    LET timestamp == DateMs(call.photoDate, call.photoTime)
        boxes     == OrZero(result.boxCount)
        bottles   == boxes * BottlesPerBox
        bpm       == ClientBpm(result, bottles, timestamp, call.previousLog)
        status    == GetStatusText(IF result.status # "" THEN result.status
                                   ELSE StatusOf(bpm))
    IN  [id         |-> id,
         timestamp  |-> timestamp,
         boxes      |-> boxes,
         bottles    |-> bottles,
         bpm        |-> Max(0, bpm),
         status     |-> status,
         imageUrl   |-> call.capturedImage,
         summary    |-> result.summary,
         isRelevant |-> TRUE]

(* the entry appended for a relevant reading *)
RelevantLog(result, call, id) ==
    LET timestamp == DateMs(call.photoDate, call.photoTime)
        boxes     == OrZero(result.boxCount)
        bottles   == IF OrZero(result.bottleCount) # 0
                     THEN result.bottleCount[1] ELSE boxes * BottlesPerBox
        bpm       == ClientBpm(result, bottles, timestamp, call.previousLog)
        status    == GetStatusText(IF result.status # "" THEN result.status
                                   ELSE StatusOf(bpm))
    IN  [id         |-> id,
         timestamp  |-> timestamp,
         boxes      |-> boxes,
         bottles    |-> bottles,
         bpm        |-> Max(0, bpm),
         status     |-> status,
         imageUrl   |-> call.capturedImage,
         summary    |-> result.summary,
         isRelevant |-> TRUE]

(* a log that grows at the front *)
PrependLog(prev, newLog) == <<newLog>> \o prev

(* setLogs((prev) => [...prev, newLog]) *)
AppendLog(prev, newLog) == prev \o <<newLog>>

(* --------------------------- manual correction ------------------------- *)

Digits == <<"0", "1", "2", "3", "4", "5", "6", "7", "8", "9">>
IsDigit(c) == \E i \in 1..Len(Digits) : Digits[i] = c
DigitValue(c) == (CHOOSE i \in 1..Len(Digits) : Digits[i] = c) - 1

RECURSIVE LeadingDigits(_)
LeadingDigits(s) ==
    IF s = <<>> \/ ~IsDigit(Head(s)) THEN 0 ELSE 1 + LeadingDigits(Tail(s))

RECURSIVE DecimalValue(_)
DecimalValue(ds) ==
    IF ds = <<>> THEN 0
    ELSE 10 * DecimalValue(SubSeq(ds, 1, Len(ds) - 1)) + DigitValue(ds[Len(ds)])

(* Number.parseInt(s): an optional sign, then the longest run of digits;    *)
(* None is NaN.  The integer 0 stands for both +0 and -0 (-0 < 0 is false). *)
ParseInt(s) ==
    LET signed == s # <<>> /\ Head(s) \in {"-", "+"}
        body   == IF signed THEN Tail(s) ELSE s
        n      == LeadingDigits(body)
        sign   == IF signed /\ Head(s) = "-" THEN -1 ELSE 1
    IN  IF n = 0 THEN None ELSE Some(sign * DecimalValue(SubSeq(body, 1, n)))

(* n.toString() for an integer n >= 0 *)
RECURSIVE NumberToString(_)
NumberToString(n) ==
    IF n < 10 THEN <<Digits[n + 1]>>
    ELSE NumberToString(n \div 10) \o <<Digits[(n % 10) + 1]>>

(* prev.filter(l => l.isRelevant && l.timestamp < log.timestamp) *)
RelevantLogsBeforeThis(prev, log) ==
    SelectSeq(prev, LAMBDA l : l.isRelevant /\ l.timestamp < log.timestamp)

(* newBpm of handleSaveEdit, given the entries the filter kept *)
BpmAgainst(before, log, newBottles) ==
    IF Len(before) > 0
    THEN LET previousLog == before[Len(before)]
             timeDiffMs  == log.timestamp - previousLog.timestamp
             bottlesDiff == newBottles - previousLog.bottles
         IN  IF timeDiffMs > 0
             THEN Round(bottlesDiff * MsPerMinute, timeDiffMs)
             ELSE log.bpm
    ELSE log.bpm

EditBpm(prev, log, newBottles) ==
    BpmAgainst(RelevantLogsBeforeThis(prev, log), log, newBottles)

(* a rate stored as computed *)
Unclamped(newBpm) == newBpm

(* bpm: Math.max(0, newBpm) *)
ClampBpm(newBpm) == Max(0, newBpm)

(* the object returned by the map callback for the entry being corrected *)
EditedLog(prev, log, newBoxes) ==
    LET newBottles == newBoxes * BottlesPerBox
        newBpm     == EditBpm(prev, log, newBottles)
    IN  [log EXCEPT !.boxes   = newBoxes,
                    !.bottles = newBottles,
                    !.bpm     = ClampBpm(newBpm),
                    !.status  = IF newBpm >= NormalThreshold
                                THEN "jeongsang" ELSE "neurim"]

(* prev.map((log) => log.id === editingLog.id ? {...} : log) *)
SaveEdit(prev, id, newBoxes) ==
    [i \in 1..Len(prev) |->
        IF prev[i].id = id THEN EditedLog(prev, prev[i], newBoxes) ELSE prev[i]]

(* ------------------------------- inputs -------------------------------- *)

Images == {"imgA"}

(* model replies that parse to a JSON object *)
Replies ==
    { [isRelevant |-> Some(FALSE), boxCount |-> None, bottleCount |-> None,
       summary |-> "desk"],
      [isRelevant |-> Some(TRUE), boxCount |-> Some(30), bottleCount |-> Some(0),
       summary |-> "counter"],
      [isRelevant |-> Some(TRUE), boxCount |-> Some(20), bottleCount |-> Some(2500),
       summary |-> "counter"] }

JsonOutcomes == {[type |-> "json", parsedData |-> r] : r \in Replies}

(* the outcomes the client is run against *)
Outcomes ==
    JsonOutcomes \cup {[type |-> "throws", message |-> "fetch failed"]}

(* what the user can leave in the correction input (type="number") *)
EditInputs ==
    { <<>>, <<"0">>, <<"4", "0">>, <<"-", "0", ".", "5">> }

(* ------------------------------- actions ------------------------------- *)

Init ==
    /\ logs = <<>>
    /\ isScanning = FALSE
    /\ editingLog = None
    /\ editValue = <<>>
    /\ capturedImage = "null"
    /\ showTimeInputDialog = FALSE
    /\ photoTime = None
    /\ photoDate = None
    /\ ocrError = "null"
    /\ lastIrrelevantSummary = "null"
    /\ loading = EmptyBag
    /\ fileDialogOpen = FALSE
    /\ calls = EmptyBag
    /\ clock = 0

(* the capture button: disabled={isScanning}; opens the file chooser *)
HandleCameraScan ==
    /\ ~isScanning
    /\ ~fileDialogOpen
    /\ fileDialogOpen' = TRUE
    /\ UNCHANGED <<logs, isScanning, editingLog, editValue, capturedImage,
                   showTimeInputDialog, photoTime, photoDate, ocrError,
                   lastIrrelevantSummary, loading, calls, clock>>

(* the change event of the file input: the file starts to be read *)
HandleImageCapture(file) ==
    /\ fileDialogOpen
    /\ BagCardinality(loading) < MaxLoading
    /\ fileDialogOpen' = FALSE
    /\ loading' = loading (+) SetToBag({file})
    /\ UNCHANGED <<logs, isScanning, editingLog, editValue, capturedImage,
                   showTimeInputDialog, photoTime, photoDate, ocrError,
                   lastIrrelevantSummary, calls, clock>>

(* the file chooser is dismissed without a file: if (!file) return *)
HandleImageCaptureNoFile ==
    /\ fileDialogOpen
    /\ fileDialogOpen' = FALSE
    /\ UNCHANGED <<logs, isScanning, editingLog, editValue, capturedImage,
                   showTimeInputDialog, photoTime, photoDate, ocrError,
                   lastIrrelevantSummary, loading, calls, clock>>

(* img.onload: the compressed image is stored and the time dialog opens, *)
(* pre-filled with the current date and time                             *)
ImageOnLoad(file, nowDate, nowTime) ==
    /\ BagIn(file, loading)
    /\ loading' = loading (-) SetToBag({file})
    /\ capturedImage' = file
    /\ ocrError' = "null"
    /\ lastIrrelevantSummary' = "null"
    /\ photoDate' = Some(nowDate)
    /\ photoTime' = Some(nowTime)
    /\ showTimeInputDialog' = TRUE
    /\ UNCHANGED <<logs, isScanning, editingLog, editValue, fileDialogOpen,
                   calls, clock>>

(* the date and time inputs of the dialog *)
SetPhotoDate(v) ==
    /\ showTimeInputDialog
    /\ photoDate' = v
    /\ UNCHANGED <<logs, isScanning, editingLog, editValue, capturedImage,
                   showTimeInputDialog, photoTime, ocrError,
                   lastIrrelevantSummary, loading, fileDialogOpen, calls, clock>>

SetPhotoTime(v) ==
    /\ showTimeInputDialog
    /\ photoTime' = v
    /\ UNCHANGED <<logs, isScanning, editingLog, editValue, capturedImage,
                   showTimeInputDialog, photoDate, ocrError,
                   lastIrrelevantSummary, loading, fileDialogOpen, calls, clock>>

(* the dialog's cancel button and onOpenChange *)
CloseTimeInputDialog ==
    /\ showTimeInputDialog
    /\ showTimeInputDialog' = FALSE
    /\ UNCHANGED <<logs, isScanning, editingLog, editValue, capturedImage,
                   photoTime, photoDate, ocrError, lastIrrelevantSummary,
                   loading, fileDialogOpen, calls, clock>>

(* the last entry of the log, relevant or not *)
PreviousLogOfAnyKind(ls) ==
    IF Len(ls) = 0 THEN None
    ELSE Some([bottles |-> ls[Len(ls)].bottles, timestamp |-> ls[Len(ls)].timestamp])

(* what analyzeImage reads of relevantLogs[relevantLogs.length - 1] *)
PreviousLog(ls) ==
    LET latest == LatestLog(ls)
    IN  IF latest = None THEN None
        ELSE Some([bottles |-> latest[1].bottles, timestamp |-> latest[1].timestamp])

Unanswered(cs) == {c \in BagToSet(cs) : c.response = None}
NumUnanswered(cs) == BagCardinality([c \in Unanswered(cs) |-> cs[c]])

(* handleConfirmPhotoTime up to the await: the call keeps the image, date,  *)
(* time and relevantLogs of the render in which the button was pressed     *)
HandleConfirmPhotoTime ==
    /\ showTimeInputDialog
    /\ capturedImage # "null"
    /\ photoTime # None
    /\ photoDate # None
    /\ BagCardinality(calls) < MaxCalls
    /\ clock + NumUnanswered(calls) < MaxScans
    /\ showTimeInputDialog' = FALSE
    /\ isScanning' = TRUE
    /\ ocrError' = "null"
    /\ lastIrrelevantSummary' = "null"
    /\ calls' = calls (+) SetToBag({[capturedImage |-> capturedImage,
                                     photoDate     |-> photoDate[1],
                                     photoTime     |-> photoTime[1],
                                     previousLog   |-> PreviousLog(logs),
                                     currentTime   |-> None,
                                     response      |-> None]})
    /\ UNCHANGED <<logs, editingLog, editValue, capturedImage, photoTime,
                   photoDate, loading, fileDialogOpen, clock>>

(* the endpoint answers one request; currentTime is its Date.now() *)
Answered(call, outcome, currentTime) ==
    [call EXCEPT
        !.currentTime = Some(currentTime),
        !.response = Some(PostResponse(outcome,
            IF call.previousLog = None THEN None
            ELSE Some(call.previousLog[1].bottles),
            IF call.previousLog = None THEN None
            ELSE Some(call.previousLog[1].timestamp),
            currentTime))]

POST(call, outcome, currentTime) ==
    /\ BagIn(call, calls)
    /\ call.response = None
    /\ calls' = (calls (-) SetToBag({call}))
                    (+) SetToBag({Answered(call, outcome, currentTime)})
    /\ clock' = clock + 1
    /\ UNCHANGED <<logs, isScanning, editingLog, editValue, capturedImage,
                   showTimeInputDialog, photoTime, photoDate, ocrError,
                   lastIrrelevantSummary, loading, fileDialogOpen>>

(* a catch block that shows the message and leaves the scanning flag set *)
ScanFailedStaysScanning(call) ==
    /\ BagIn(call, calls)
    /\ call.response # None
    /\ AnalyzeImageError(call.response[1]) # None
    /\ calls' = calls (-) SetToBag({call})
    /\ ocrError' = AnalyzeImageError(call.response[1])[1]
    /\ capturedImage' = "null"
    /\ UNCHANGED <<logs, isScanning, editingLog, editValue, showTimeInputDialog,
                   photoTime, photoDate, lastIrrelevantSummary, loading,
                   fileDialogOpen, clock>>

(* handleConfirmPhotoTime after the await: the catch block *)
ScanFailed(call) ==
    /\ BagIn(call, calls)
    /\ call.response # None
    /\ AnalyzeImageError(call.response[1]) # None
    /\ calls' = calls (-) SetToBag({call})
    /\ ocrError' = AnalyzeImageError(call.response[1])[1]
    /\ isScanning' = FALSE
    /\ capturedImage' = "null"
    /\ UNCHANGED <<logs, editingLog, editValue, showTimeInputDialog, photoTime,
                   photoDate, lastIrrelevantSummary, loading, fileDialogOpen,
                   clock>>

(* handleConfirmPhotoTime after the await: if (!result.isRelevant) *)
ScanNotRelevant(call) ==
    /\ BagIn(call, calls)
    /\ call.response # None
    /\ AnalyzeImageError(call.response[1]) = None
    /\ ~IsRelevantResult(call.response[1].body)
    /\ calls' = calls (-) SetToBag({call})
    /\ lastIrrelevantSummary' = ResultSummary(call.response[1].body)
    /\ logs' = AppendLog(logs, IrrelevantLog(call.response[1].body, call, clock))
    /\ isScanning' = FALSE
    /\ capturedImage' = "null"
    /\ photoTime' = None
    /\ photoDate' = None
    /\ UNCHANGED <<editingLog, editValue, showTimeInputDialog, ocrError,
                   loading, fileDialogOpen, clock>>

(* handleConfirmPhotoTime after the await: the relevant reading *)
ScanRelevant(call) ==
    /\ BagIn(call, calls)
    /\ call.response # None
    /\ AnalyzeImageError(call.response[1]) = None
    /\ IsRelevantResult(call.response[1].body)
    /\ calls' = calls (-) SetToBag({call})
    /\ logs' = AppendLog(logs, RelevantLog(call.response[1].body, call, clock))
    /\ isScanning' = FALSE
    /\ capturedImage' = "null"
    /\ photoTime' = None
    /\ photoDate' = None
    /\ UNCHANGED <<editingLog, editValue, showTimeInputDialog, ocrError,
                   lastIrrelevantSummary, loading, fileDialogOpen, clock>>

(* the edit button, shown for relevant entries only *)
HandleEditLog(i) ==
    /\ i \in 1..Len(logs)
    /\ logs[i].isRelevant
    /\ editingLog' = Some(logs[i].id)
    /\ editValue' = NumberToString(logs[i].boxes)
    /\ UNCHANGED <<logs, isScanning, capturedImage, showTimeInputDialog,
                   photoTime, photoDate, ocrError, lastIrrelevantSummary,
                   loading, fileDialogOpen, calls, clock>>

(* the correction input *)
SetEditValue(v) ==
    /\ editingLog # None
    /\ editValue' = v
    /\ UNCHANGED <<logs, isScanning, editingLog, capturedImage,
                   showTimeInputDialog, photoTime, photoDate, ocrError,
                   lastIrrelevantSummary, loading, fileDialogOpen, calls, clock>>

(* the correction dialog's cancel button and onOpenChange *)
CloseEditDialog ==
    /\ editingLog # None
    /\ editingLog' = None
    /\ UNCHANGED <<logs, isScanning, editValue, capturedImage,
                   showTimeInputDialog, photoTime, photoDate, ocrError,
                   lastIrrelevantSummary, loading, fileDialogOpen, calls, clock>>

(* isNaN(newBoxes) || newBoxes < 0 *)
Rejected(value) == ParseInt(value) = None \/ ParseInt(value)[1] < 0

HandleSaveEdit ==
    /\ editingLog # None
    /\ IF Rejected(editValue)
       THEN UNCHANGED <<logs, editingLog, editValue>>
       ELSE /\ logs' = SaveEdit(logs, editingLog[1], ParseInt(editValue)[1])
            /\ editingLog' = None
            /\ editValue' = <<>>
    /\ UNCHANGED <<isScanning, capturedImage, showTimeInputDialog, photoTime,
                   photoDate, ocrError, lastIrrelevantSummary, loading,
                   fileDialogOpen, calls, clock>>

Next ==
    \/ HandleCameraScan
    \/ \E file \in Images : HandleImageCapture(file)
    \/ HandleImageCaptureNoFile
    \/ \E file \in Images, d \in PhotoDates, t \in PhotoTimes : ImageOnLoad(file, d, t)
    \/ \E v \in {None} \cup {Some(d) : d \in PhotoDates} : SetPhotoDate(v)
    \/ \E t \in PhotoTimes : SetPhotoTime(Some(t))
    \/ CloseTimeInputDialog
    \/ HandleConfirmPhotoTime
    \/ \E call \in BagToSet(calls), o \in Outcomes, t \in Timestamps : POST(call, o, t)
    \/ \E call \in BagToSet(calls) : ScanFailed(call)
    \/ \E call \in BagToSet(calls) : ScanNotRelevant(call)
    \/ \E call \in BagToSet(calls) : ScanRelevant(call)
    \/ \E i \in 1..Len(logs) : HandleEditLog(i)
    \/ \E v \in EditInputs : SetEditValue(v)
    \/ CloseEditDialog
    \/ HandleSaveEdit

Spec == Init /\ [][Next]_vars

(* --------------- the endpoint alone, over a grid of requests ----------- *)

(* the replies of the vision model, among them one without a bottle count *)
(* and one without isRelevant, and every way the call to it can end        *)
RateReplies ==
    Replies \cup
    { [isRelevant |-> Some(TRUE), boxCount |-> Some(10), bottleCount |-> None,
       summary |-> "counter"],
      [isRelevant |-> None, boxCount |-> Some(45), bottleCount |-> Some(4523),
       summary |-> "counter"] }

RateOutcomes ==
    {[type |-> "json", parsedData |-> r] : r \in RateReplies}
    \cup {[type |-> "unparsable", text |-> <<"prose">>]}
    \cup {[type |-> "throws", message |-> m] :
            m \in {"API key not valid", "SAFETY", "RESOURCE_EXHAUSTED", "fetch failed"}}

(* previousTimestamp of the request: absent, 0, or midnight of day 1 *)
RateEpoch == DateMs(<<2025, 11, 1>>, <<0, 0>>)

RatePreviousLogs ==
    {None} \cup {Some([bottles |-> b, timestamp |-> ts]) :
                    b \in {0, 2500, 3000}, ts \in {0, RateEpoch}}

(* Date.now() of the endpoint: around the previous timestamp and around    *)
(* the end of the 60 minute window, to the millisecond                     *)
RateDeltas ==
    { 0 - 30 * MsPerMinute, 0 - 1, 0, 1, 30 * MsPerMinute,
      WindowMinutes * MsPerMinute - 1, WindowMinutes * MsPerMinute,
      WindowMinutes * MsPerMinute + 1, 90 * MsPerMinute }

RateTimes == {RateEpoch + d : d \in RateDeltas}

(* one request has reached the endpoint *)
InitRate ==
    /\ logs = <<>>
    /\ isScanning = TRUE
    /\ editingLog = None
    /\ editValue = <<>>
    /\ capturedImage = "imgA"
    /\ showTimeInputDialog = FALSE
    /\ photoTime = Some(<<0, 30>>)
    /\ photoDate = Some(<<2025, 11, 1>>)
    /\ ocrError = "null"
    /\ lastIrrelevantSummary = "null"
    /\ loading = EmptyBag
    /\ fileDialogOpen = FALSE
    /\ \E previousLog \in RatePreviousLogs :
          calls = SetToBag({[capturedImage |-> "imgA",
                             photoDate     |-> <<2025, 11, 1>>,
                             photoTime     |-> <<0, 30>>,
                             previousLog   |-> previousLog,
                             currentTime   |-> None,
                             response      |-> None]})
    /\ clock = 0

NextRate ==
    \E call \in BagToSet(calls), o \in RateOutcomes, t \in RateTimes : POST(call, o, t)

SpecRate == InitRate /\ [][NextRate]_vars

(* ------------- one scan of the client, over every response ------------ *)

(* the entry of a first reading of 2500 bottles at 0:00 *)
FirstLog ==
    RelevantLog([isRelevant |-> TRUE, boxCount |-> Some(20),
                 bottleCount |-> Some(2500), bpm |-> None, status |-> "unknown",
                 summary |-> "counter"],
                [capturedImage |-> "imgA", photoDate |-> <<2025, 11, 1>>,
                 photoTime |-> <<0, 0>>, previousLog |-> None],
                0)

(* the entry of a second reading, at 0:10, judged not relevant *)
SkippedLog ==
    IrrelevantLog([isRelevant |-> FALSE, summary |-> "desk"],
                  [capturedImage |-> "imgA", photoDate |-> <<2025, 11, 1>>,
                   photoTime |-> <<0, 10>>],
                  1)

(* the time confirmation was pressed for a scan, the first, the second or  *)
(* the third of the session: its call is in flight                         *)
InitScan ==
    /\ logs \in {<<>>, <<FirstLog>>, <<FirstLog, SkippedLog>>}
    /\ isScanning = TRUE
    /\ editingLog = None
    /\ editValue = <<>>
    /\ capturedImage = "imgA"
    /\ showTimeInputDialog = FALSE
    /\ photoTime = Some(<<0, 30>>)
    /\ photoDate = Some(<<2025, 11, 1>>)
    /\ ocrError = "null"
    /\ lastIrrelevantSummary = "null"
    /\ loading = EmptyBag
    /\ fileDialogOpen = FALSE
    /\ calls = SetToBag({[capturedImage |-> "imgA",
                          photoDate     |-> <<2025, 11, 1>>,
                          photoTime     |-> <<0, 30>>,
                          previousLog   |-> PreviousLog(logs),
                          currentTime   |-> None,
                          response      |-> None]})
    /\ clock = Len(logs)

NextScan ==
    \/ \E call \in BagToSet(calls), o \in RateOutcomes, t \in RateTimes :
            POST(call, o, t)
    \/ \E call \in BagToSet(calls) : ScanFailed(call)
    \/ \E call \in BagToSet(calls) : ScanNotRelevant(call)
    \/ \E call \in BagToSet(calls) : ScanRelevant(call)

SpecScan == InitScan /\ [][NextScan]_vars

(* ------------------------ the bare-number endpoints -------------------- *)
(* The text read from the image is a sequence of one-character strings.    *)

(* text.replace(/[,\s]/g, "") *)
CleanedText(text) == SelectSeq(text, LAMBDA c : c \notin {",", " "})

(* cleanedText.match(/\d+/g): the maximal runs of digits, in order; the    *)
(* empty sequence stands for null                                          *)
RECURSIVE DigitRuns(_)
DigitRuns(s) ==
    IF s = <<>> THEN <<>>
    ELSE IF ~IsDigit(Head(s)) THEN DigitRuns(Tail(s))
    ELSE LET n == LeadingDigits(s)
         IN  <<SubSeq(s, 1, n)>> \o DigitRuns(SubSeq(s, n + 1, Len(s)))

(* Number.parseInt(num, 10) of each run, those that are > 0 kept *)
PositiveNumbers(runs) ==
    SelectSeq([i \in 1..Len(runs) |-> DecimalValue(runs[i])], LAMBDA n : n > 0)

(* the numbers of all texts, text by text *)
RECURSIVE AllNumbers(_)
AllNumbers(allTexts) ==
    IF allTexts = <<>> THEN <<>>
    ELSE PositiveNumbers(DigitRuns(CleanedText(Head(allTexts))))
            \o AllNumbers(Tail(allTexts))

(* Math.max(...numbers) of a non-empty sequence *)
MaxOf(numbers) ==
    numbers[CHOOSE i \in 1..Len(numbers) :
                \A j \in 1..Len(numbers) : numbers[j] <= numbers[i]]

(* selectedNumber of the Vision endpoint: the greatest number of four      *)
(* digits, else of three, else of two, else the greatest number            *)
SelectedNumber(allNumbers) ==
    LET fourDigitNumbers  == SelectSeq(allNumbers, LAMBDA n : n >= 1000 /\ n <= 9999)
        threeDigitNumbers == SelectSeq(allNumbers, LAMBDA n : n >= 100 /\ n <= 999)
        twoDigitNumbers   == SelectSeq(allNumbers, LAMBDA n : n >= 10 /\ n <= 99)
    IN  IF Len(fourDigitNumbers) > 0 THEN MaxOf(fourDigitNumbers)
        ELSE IF Len(threeDigitNumbers) > 0 THEN MaxOf(threeDigitNumbers)
        ELSE IF Len(twoDigitNumbers) > 0 THEN MaxOf(twoDigitNumbers)
        ELSE MaxOf(allNumbers)

(* the responses that carry an error identifier *)
Failure(status, error) ==
    [status |-> status, body |-> [error |-> error, message |-> error]]

SoftFailure(error) ==
    [status |-> 200, body |-> [error |-> error, message |-> error, number |-> None]]

(* the branch taken when the upstream service answers with a status that   *)
(* is not ok                                                               *)
UpstreamFailure(status) ==
    CASE status = 400 -> Failure(400, "INVALID_REQUEST")
      [] status = 403 -> Failure(403, "API_KEY_INVALID")
      [] status = 413 -> Failure(413, "IMAGE_TOO_LARGE")
      [] OTHER        -> Failure(500, "API_ERROR")

(* the Vision endpoint from the fetch on *)
VisionResponse(outcome) ==
    CASE outcome.type = "throws" -> Failure(500, "SERVER_ERROR")
      [] outcome.type = "http"   -> UpstreamFailure(outcome.status)
      [] outcome.type = "empty"  -> SoftFailure("INVALID_RESPONSE")
      [] outcome.type = "error"  -> SoftFailure("VISION_ERROR")
      [] OTHER ->
            IF Len(outcome.descriptions) = 0 THEN SoftFailure("NO_TEXT")
            ELSE LET allTexts   == SelectSeq(outcome.descriptions,
                                             LAMBDA d : d # <<>>)
                     allNumbers == AllNumbers(allTexts)
                 IN  IF Len(allNumbers) = 0 THEN SoftFailure("NO_NUMBERS")
                     ELSE [status |-> 200,
                           body   |-> [number |-> Some(SelectedNumber(allNumbers))]]

(* textContent.trim() *)
RECURSIVE TrimStart(_)
TrimStart(s) == IF s # <<>> /\ Head(s) = " " THEN TrimStart(Tail(s)) ELSE s

RECURSIVE TrimEnd(_)
TrimEnd(s) ==
    IF s # <<>> /\ s[Len(s)] = " " THEN TrimEnd(SubSeq(s, 1, Len(s) - 1)) ELSE s

Trim(s) == TrimEnd(TrimStart(s))

(* toUpperCase() on the letters of the texts *)
UpperCase(c) ==
    CASE c = "n" -> "N" [] c = "o" -> "O" [] c = "u" -> "U" [] c = "m" -> "M"
      [] c = "b" -> "B" [] c = "e" -> "E" [] c = "r" -> "R" [] OTHER -> c

ToUpperCase(s) == [i \in 1..Len(s) |-> UpperCase(s[i])]

NoNumberText == <<"N", "O", "_", "N", "U", "M", "B", "E", "R">>

(* the Gemini bare-number endpoint from the fetch on *)
NumberResponse(outcome) ==
    CASE outcome.type = "throws" -> Failure(500, "SERVER_ERROR")
      [] outcome.type = "http"   -> UpstreamFailure(outcome.status)
      [] outcome.type = "empty"  -> SoftFailure("INVALID_RESPONSE")
      [] outcome.type = "safety" -> SoftFailure("SAFETY_BLOCKED")
      [] OTHER ->
            LET textContent == outcome.text
                numbers     == DigitRuns(CleanedText(textContent))
                allNumbers  == PositiveNumbers(numbers)
            IN  IF textContent = <<>> THEN SoftFailure("NO_TEXT")
                ELSE IF ToUpperCase(Trim(textContent)) = NoNumberText
                     THEN SoftFailure("NO_NUMBERS")
                ELSE IF Len(numbers) = 0 THEN SoftFailure("NO_NUMBERS")
                ELSE IF Len(allNumbers) = 0 THEN SoftFailure("NO_NUMBERS")
                ELSE [status |-> 200, body |-> [number |-> Some(MaxOf(allNumbers))]]

(* --------------- the endpoints, each over a grid of requests ----------- *)

MaxText == 4        \* tokens of a reply text
MaxPieces == 3      \* pieces a text read from an image is put together from
MaxDigits == 8      \* digits of one digit run of a text read from an image

(* the reply texts of the vision model *)
Texts == UNION {[1..n -> Tokens] : n \in 0..MaxText}

TextOutcomes ==
    {[type |-> "text", text |-> t] : t \in Texts}
    \cup {[type |-> "throws", message |-> m] :
            m \in {"API key not valid", "SAFETY", "RESOURCE_EXHAUSTED", "fetch failed"}}

(* what a text read from an image is put together from *)
Pieces ==
    { <<"0">>, <<"7">>, <<"9", "0", "0">>, <<"0", "5", "0", "0">>,
      <<"1", ",", "2", "3", "4">>, <<"1", "0", "0", "0", "0">>,
      <<" ", "u", " ">>, <<"n", "o", "_", "n", "u", "m", "b", "e", "r">>,
      NoNumberText }

RECURSIVE Concat(_)
Concat(ps) == IF ps = <<>> THEN <<>> ELSE Head(ps) \o Concat(Tail(ps))

(* the length of the longest digit run of the text, once cleaned *)
LongestRun(text) ==
    LET runs == DigitRuns(CleanedText(text))
    IN  IF runs = <<>> THEN 0
        ELSE Len(runs[CHOOSE i \in 1..Len(runs) :
                        \A j \in 1..Len(runs) : Len(runs[j]) <= Len(runs[i])])

ImageTexts ==
    {t \in {Concat(ps) : ps \in UNION {[1..n -> Pieces] : n \in 0..MaxPieces}} :
        LongestRun(t) <= MaxDigits}

(* the ways a call to the upstream service of a bare-number endpoint ends *)
UpstreamFailures ==
    {[type |-> "throws"], [type |-> "empty"]}
    \cup {[type |-> "http", status |-> st] : st \in {400, 403, 413, 429, 500}}

VisionOutcomes ==
    UpstreamFailures \cup {[type |-> "error"]}
    \cup {[type |-> "annotations", descriptions |-> <<>>]}
    \cup {[type |-> "annotations", descriptions |-> <<t>>] : t \in ImageTexts}
    \cup {[type |-> "annotations", descriptions |-> <<t, p>>] :
            t \in ImageTexts, p \in Pieces \cup {<<>>}}

NumberOutcomes ==
    UpstreamFailures \cup {[type |-> "safety"]}
    \cup {[type |-> "text", text |-> t] : t \in ImageTexts}

(* the responses to a request without an image and without a configured key *)
NoImage == Failure(400, "NO_IMAGE")
ApiKeyMissing == Failure(500, "API_KEY_MISSING")

Handlers == {"bottle", "lot", "vision", "number"}

(* the time of the box/bottle endpoint: half an hour after RateEpoch *)
EndpointTime == RateEpoch + 30 * MsPerMinute

(* one request has reached one of the endpoints; apiKey is the environment *)
(* variable the endpoint reads                                              *)
InitEndpoint ==
    /\ logs = <<>>
    /\ isScanning = TRUE
    /\ editingLog = None
    /\ editValue = <<>>
    /\ capturedImage = "imgA"
    /\ showTimeInputDialog = FALSE
    /\ photoTime = Some(<<0, 30>>)
    /\ photoDate = Some(<<2025, 11, 1>>)
    /\ ocrError = "null"
    /\ lastIrrelevantSummary = "null"
    /\ loading = EmptyBag
    /\ fileDialogOpen = FALSE
    /\ \E handler \in Handlers, image \in Images \cup {"null"}, apiKey \in BOOLEAN,
          previousLog \in {None, Some([bottles |-> 2500, timestamp |-> RateEpoch])} :
          /\ handler # "bottle" => previousLog = None
          /\ calls = SetToBag({[handler     |-> handler,
                                image       |-> image,
                                apiKey      |-> apiKey,
                                previousLog |-> previousLog,
                                currentTime |-> None,
                                outcome     |-> None,
                                response    |-> None]})
    /\ clock = 0

(* request checks that look at the key before the image *)
RequestCheckKeyFirst(call) ==
    IF ~call.apiKey THEN Some(ApiKeyMissing)
    ELSE IF call.image = "null" THEN Some(NoImage)
    ELSE None

(* a handler up to the call of the upstream service: the response of the   *)
(* request checks, or None when the service is called                      *)
RequestCheck(call) ==
    IF call.image = "null" THEN Some(NoImage)
    ELSE IF ~call.apiKey THEN Some(ApiKeyMissing)
    ELSE None

(* the request answered: by the request checks, or as the handler answers  *)
(* after the upstream service ended with outcome                           *)
Respond(call, outcome, answered) ==
    /\ BagIn(call, calls)
    /\ call.response = None
    /\ calls' = (calls (-) SetToBag({call})) (+) SetToBag({
          IF RequestCheck(call) # None
          THEN [call EXCEPT !.response = RequestCheck(call)]
          ELSE [answered EXCEPT !.outcome = Some(outcome)]})
    /\ UNCHANGED <<logs, isScanning, editingLog, editValue, capturedImage,
                   showTimeInputDialog, photoTime, photoDate, ocrError,
                   lastIrrelevantSummary, loading, fileDialogOpen, clock>>

BottlePOST(call, outcome, currentTime) ==
    /\ call.handler = "bottle"
    /\ Respond(call, outcome, Answered(call, outcome, currentTime))

LotPostResponse(outcome) ==
    CASE outcome.type = "text" -> LotPostText(outcome.text)
      [] OTHER -> PostError(outcome.message)

LotPOST(call, outcome) ==
    /\ call.handler = "lot"
    /\ Respond(call, outcome,
               [call EXCEPT !.response = Some(LotPostResponse(outcome))])

VisionPOST(call, outcome) ==
    /\ call.handler = "vision"
    /\ Respond(call, outcome,
               [call EXCEPT !.response = Some(VisionResponse(outcome))])

NumberPOST(call, outcome) ==
    /\ call.handler = "number"
    /\ Respond(call, outcome,
               [call EXCEPT !.response = Some(NumberResponse(outcome))])

NextEndpoint ==
    \/ \E call \in Unanswered(calls), o \in TextOutcomes :
            BottlePOST(call, o, EndpointTime)
    \/ \E call \in Unanswered(calls), o \in TextOutcomes : LotPOST(call, o)
    \/ \E call \in Unanswered(calls), o \in VisionOutcomes : VisionPOST(call, o)
    \/ \E call \in Unanswered(calls), o \in NumberOutcomes : NumberPOST(call, o)

SpecEndpoint == InitEndpoint /\ [][NextEndpoint]_vars

(* ------------------------- the Rate Calculator ------------------------- *)

WindowMs == WindowMinutes * MsPerMinute

(* an answered request that carried a previous reading and whose reply     *)
(* carried a bottle count                                                   *)
RateCase(c) ==
    /\ c.response # None
    /\ c.previousLog # None
    /\ "bottleCount" \in DOMAIN c.response[1].body
    /\ c.response[1].body.bottleCount # None

(* currentTimestamp - previousTimestamp and currentValue - previousValue *)
TimeDiffMs(c) == c.currentTime[1] - c.previousLog[1].timestamp
BottleDiff(c) == c.response[1].body.bottleCount[1] - c.previousLog[1].bottles

(* r is num / den rounded to the nearest integer, halves upwards *)
IsRounded(r, num, den) ==
    2 * r * den <= 2 * num + den /\ 2 * num + den < 2 * (r + 1) * den

(* C1: whenever the time between the previous reading and the endpoint's   *)
(* clock is not in (0, 60] minutes, or the count went down, the endpoint   *)
(* answers 200 with bpm = null and status = unknown: no negative rate and  *)
(* no error.                                                                *)
C1_RateGuard ==
    \A c \in BagToSet(calls) :
        (RateCase(c) /\ ( ~(TimeDiffMs(c) > 0 /\ TimeDiffMs(c) <= WindowMs)
                          \/ BottleDiff(c) < 0 ))
        => /\ c.response[1].status = 200
           /\ "error" \notin DOMAIN c.response[1].body
           /\ c.response[1].body.bpm = None
           /\ c.response[1].body.status = "unknown"

(* a relevant reading with a count that did not go down, answered one      *)
(* millisecond after the window closed: no rate                            *)
C1_Witness ==
    \E c \in BagToSet(calls) :
        /\ RateCase(c)
        /\ c.response[1].body.isRelevant
        /\ c.previousLog[1].timestamp # 0
        /\ TimeDiffMs(c) = WindowMs + 1
        /\ BottleDiff(c) > 0
        /\ c.response[1].body.bpm = None
        /\ c.response[1].body.status = "unknown"

(* the rate of a relevant reading whose request carried a previous count   *)
(* and a non-zero previous timestamp                                        *)
RateDefined(c) ==
    /\ c.response[1].body.bpm # None
    /\ IsRounded(c.response[1].body.bpm[1], BottleDiff(c) * MsPerMinute, TimeDiffMs(c))
    /\ c.response[1].body.bpm[1] >= 0

RateInput(c) ==
    /\ RateCase(c)
    /\ c.response[1].body.isRelevant
    /\ c.previousLog[1].timestamp # 0
    /\ BottleDiff(c) >= 0

(* C2, as the code has it: for a time difference in (0, 60) minutes, 60    *)
(* excluded, and a count that did not go down, the rate is defined, equals *)
(* round(delta / deltaMinutes) and is >= 0.                                *)
C2_RateInOpenWindow ==
    \A c \in BagToSet(calls) :
        (RateInput(c) /\ TimeDiffMs(c) > 0 /\ TimeDiffMs(c) < WindowMs)
        => RateDefined(c)

(* one millisecond before the window closes a positive rate is returned *)
C2_Witness ==
    \E c \in BagToSet(calls) :
        /\ RateInput(c)
        /\ TimeDiffMs(c) = WindowMs - 1
        /\ RateDefined(c)
        /\ c.response[1].body.bpm[1] > 0
        /\ c.response[1].body.status = "slow"

(* C2 as stated: the same for a time difference in (0, 60] minutes, 60     *)
(* included.                                                                *)
C2_RateInClosedWindow ==
    \A c \in BagToSet(calls) :
        (RateInput(c) /\ TimeDiffMs(c) > 0 /\ TimeDiffMs(c) <= WindowMs)
        => RateDefined(c)

(* ------------------------ the stored rate and status ------------------- *)

(* an answered call that is about to append a relevant reading *)
AppendsRelevant(c) ==
    /\ c.response # None
    /\ AnalyzeImageError(c.response[1]) = None
    /\ c.response[1].body.isRelevant

(* the same request with the same reply, processed by the endpoint at t *)
ProcessedAt(c, t) ==
    Answered([c EXCEPT !.response = None, !.currentTime = None],
             [type |-> "json",
              parsedData |-> [isRelevant  |-> Some(TRUE),
                              boxCount    |-> c.response[1].body.boxCount,
                              bottleCount |-> c.response[1].body.bottleCount,
                              summary     |-> c.response[1].body.summary]],
             t)

(* C3: the rate and status that an answered scan stores depend only on the *)
(* count, the confirmed timestamp and the previous relevant count and      *)
(* timestamp: the same scan processed by the endpoint at any other time    *)
(* stores the same rate and status.                                        *)
C3_RateIgnoresProcessingTime ==
    \A c \in BagToSet(calls) : AppendsRelevant(c) =>
        \A t \in Timestamps :
            LET stored == RelevantLog(c.response[1].body, c, clock)
                other  == RelevantLog(ProcessedAt(c, t).response[1].body, c, clock)
            IN  stored.bpm = other.bpm /\ stored.status = other.status

(* C4: every entry whose status is not unknown is normal exactly when its  *)
(* stored rate is at least 50, and slow otherwise.                         *)
C4_StatusMatchesRate ==
    \A i \in 1..Len(logs) :
        logs[i].status # "alsueopseum" =>
            IF logs[i].bpm >= NormalThreshold
            THEN logs[i].status = "jeongsang"
            ELSE logs[i].status = "neurim"

(* C5: an entry has a non-zero rate or a status other than unknown only if *)
(* it is relevant and a relevant entry precedes it in the log whose count  *)
(* is not higher and whose timestamp is strictly earlier; so the first     *)
(* relevant entry keeps status unknown, also after a correction.           *)
C5_RateOnlyWithPredecessor ==
    \A i \in 1..Len(logs) :
        (logs[i].bpm # 0 \/ logs[i].status # "alsueopseum") =>
            /\ logs[i].isRelevant
            /\ \E j \in 1..(i - 1) :
                  /\ logs[j].isRelevant
                  /\ logs[j].bottles <= logs[i].bottles
                  /\ logs[j].timestamp < logs[i].timestamp

(* ------------------------------- the log ------------------------------- *)

(* a scan completes with a reading, relevant or not *)
ScanAppends(c) == ScanRelevant(c) \/ ScanNotRelevant(c)

(* C6: every scan that completes with a reading makes the log one entry    *)
(* longer, the new entry last and carrying the confirmed timestamp, every  *)
(* earlier entry at its position; and no step ever shortens the log.       *)
C6_AppendOnly ==
    [][ /\ Len(logs') >= Len(logs)
        /\ \A c \in BagToSet(calls) : ScanAppends(c) =>
              /\ Len(logs') = Len(logs) + 1
              /\ \A i \in 1..Len(logs) : logs'[i] = logs[i]
              /\ logs'[Len(logs')].timestamp = DateMs(c.photoDate, c.photoTime)
              /\ logs'[Len(logs')].imageUrl = c.capturedImage ]_vars

(* a backdated reading was appended: it is last, after a later timestamp *)
C6_Witness ==
    /\ Len(logs) = 2
    /\ logs[2].timestamp < logs[1].timestamp
    /\ logs[1].id # logs[2].id

(* C7: the stored rate of every entry is >= 0. *)
C7_RateNonNegative ==
    \A i \in 1..Len(logs) : logs[i].bpm >= 0

(* an entry corrected to 0 boxes, below its predecessor's count: the rate  *)
(* recomputed for it is negative and 0 is stored                           *)
C7_Witness ==
    \E i \in 1..Len(logs) :
        /\ logs[i].isRelevant
        /\ logs[i].boxes = 0
        /\ EditBpm(logs, logs[i], logs[i].bottles) < 0
        /\ logs[i].bpm = 0

(* ---------------------------- the correction --------------------------- *)

(* what the text of the correction input denotes *)
Unsigned(s) == IF s # <<>> /\ Head(s) \in {"-", "+"} THEN Tail(s) ELSE s

IsNumberText(s) ==
    LET u == Unsigned(s) IN
    /\ \E i \in 1..Len(u) : IsDigit(u[i])
    /\ \A i \in 1..Len(u) : IsDigit(u[i]) \/ u[i] = "."
    /\ Cardinality({i \in 1..Len(u) : u[i] = "."}) <= 1

IsNegativeText(s) ==
    /\ IsNumberText(s)
    /\ Head(s) = "-"
    /\ \E i \in 1..Len(s) : IsDigit(s[i]) /\ s[i] # "0"

IsNonNegativeNumber(s) == IsNumberText(s) /\ ~IsNegativeText(s)

(* C8: saving a correction whose value is not a non-negative number        *)
(* (empty, not a number, negative) leaves the log unchanged.               *)
C8_InvalidCorrectionRejected ==
    [][ (HandleSaveEdit /\ ~IsNonNegativeNumber(editValue)) => logs' = logs ]_vars

(* C9: a correction changes at most one entry of the log: every other      *)
(* entry, earlier or later, stays identical in all fields.                 *)
C9_CorrectionChangesOneEntry ==
    [][ HandleSaveEdit =>
          /\ Len(logs') = Len(logs)
          /\ Cardinality({i \in 1..Len(logs) : logs'[i] # logs[i]}) <= 1 ]_vars

(* the relevant entries that precede position i in the log *)
PrecedingRelevant(ls, i) == RelevantLogs(SubSeq(ls, 1, i - 1))

(* the entry at position i is the only one with its id *)
OnlyEntryWithId(ls, i) == \A j \in 1..Len(ls) : ls[j].id = ls[i].id => j = i

(* C10: a correction recomputes the entry's rate and status against the    *)
(* nearest relevant entry before it in the log, whatever the timestamps:   *)
(* an entry before it with a later timestamp is used, an entry after it    *)
(* with an earlier timestamp is not.                                       *)
C10_PredecessorByPosition ==
    [][ (HandleSaveEdit /\ ~Rejected(editValue)) =>
          \A i \in 1..Len(logs) :
              (logs[i].id = editingLog[1] /\ OnlyEntryWithId(logs, i)) =>
              LET newBoxes == ParseInt(editValue)[1]
                  newBpm   == BpmAgainst(PrecedingRelevant(logs, i), logs[i],
                                         newBoxes * BottlesPerBox)
              IN  /\ logs'[i].bpm = ClampBpm(newBpm)
                  /\ logs'[i].status = IF newBpm >= NormalThreshold
                                       THEN "jeongsang" ELSE "neurim" ]_vars

(* what the endpoint's calculation returns for a reading of newBottles at  *)
(* the entry's timestamp against the previous reading                      *)
RateCalculator(newBottles, timestamp, previous) ==
    PostRate([isRelevant |-> Some(TRUE), boxCount |-> None,
              bottleCount |-> Some(newBottles), summary |-> ""],
             Some(previous.bottles), Some(previous.timestamp), timestamp)

(* C11: the rate and status a correction stores are those the Rate         *)
(* Calculator returns for the new count, the entry's timestamp and the     *)
(* predecessor's count and timestamp: no rate and status unknown outside   *)
(* the window or for a count below the predecessor's.                      *)
C11_CorrectionRunsRateCalculator ==
    [][ (HandleSaveEdit /\ ~Rejected(editValue)) =>
          \A i \in 1..Len(logs) :
              ( /\ logs[i].id = editingLog[1]
                /\ OnlyEntryWithId(logs, i)
                /\ Len(RelevantLogsBeforeThis(logs, logs[i])) > 0 ) =>
              LET before == RelevantLogsBeforeThis(logs, logs[i])
                  rate   == RateCalculator(
                                ParseInt(editValue)[1] * BottlesPerBox,
                                logs[i].timestamp, before[Len(before)])
              IN  /\ logs'[i].bpm = OrZero(rate.bpm)
                  /\ logs'[i].status = GetStatusText(rate.status) ]_vars

(* ------------------------- the relevant view --------------------------- *)

RelevantPositions(ls) == {i \in 1..Len(ls) : ls[i].isRelevant}

(* the view holds the relevant entries, each once, in log order *)
ViewIsRelevantSubsequence(ls) ==
    LET rel == RelevantLogs(ls)
        pos == RelevantPositions(ls)
    IN  /\ Len(rel) = Cardinality(pos)
        /\ \A i \in pos : rel[Cardinality({j \in pos : j <= i})] = ls[i]

(* the relevant entry at the greatest position *)
LastRelevant(ls) ==
    ls[CHOOSE i \in RelevantPositions(ls) : \A j \in RelevantPositions(ls) : j <= i]

DashboardShowsLastRelevant(ls) ==
    IF RelevantPositions(ls) = {}
    THEN /\ CurrentBpm(ls) = 0 /\ TotalBoxes(ls) = 0
         /\ TotalBottles(ls) = 0 /\ LastScanTime(ls) = None
    ELSE /\ CurrentBpm(ls) = LastRelevant(ls).bpm
         /\ TotalBoxes(ls) = LastRelevant(ls).boxes
         /\ TotalBottles(ls) = LastRelevant(ls).bottles
         /\ LastScanTime(ls) = Some(LastRelevant(ls).timestamp)

(* the step is the confirmation of a scan: it puts one more call in flight *)
StartsCall == BagCardinality(calls') = BagCardinality(calls) + 1

(* the call started by this step carries the last relevant entry *)
RequestCarriesLastRelevant ==
    \E c \in BagToSet(calls') :
        /\ CopiesIn(c, calls') = CopiesIn(c, calls) + 1
        /\ c.previousLog =
              IF RelevantPositions(logs) = {} THEN None
              ELSE Some([bottles   |-> LastRelevant(logs).bottles,
                         timestamp |-> LastRelevant(logs).timestamp])

TextReply(c) ==
    /\ c.handler \in {"bottle", "lot"}
    /\ c.response # None
    /\ c.outcome # None
    /\ c.outcome[1].type = "text"

ReplyText(c) == c.outcome[1].text

(* what the handler parsed out of the reply *)
Parsed(c) == JsonParse(JsonStr(ReplyText(c)))

(* the nullable data fields of each schema *)
SchemaFields(handler) ==
    IF handler = "bottle" THEN {"boxCount", "bottleCount"}
    ELSE {"operatingLine", "productionDate", "plannedQuantity", "productName",
          "completedQuantity", "lotNo"}

Degraded(c) ==
    LET body == c.response[1].body
    IN  /\ c.response[1].status = 200
        /\ "error" \notin DOMAIN body
        /\ body.isRelevant = FALSE
        /\ \A f \in SchemaFields(c.handler) : body[f] = None
        /\ c.handler = "bottle" => (body.bpm = None /\ body.status = "unknown")
        /\ body.rawText = ReplyText(c)

(* C14, as the code has it: a reply that cannot be parsed is answered with *)
(* a successful record, not relevant, every data field null, no rate and   *)
(* status unknown, whose summary is a fixed prefix followed by the reply   *)
(* text and whose rawText is the reply text.                               *)
C14_UnparsableDegrades ==
    \A c \in BagToSet(calls) :
        (TextReply(c) /\ Parsed(c).kind = "throws") =>
            /\ Degraded(c)
            /\ c.response[1].body.summary = <<ParseFailPrefix>> \o ReplyText(c)

(* prose sent to the box/bottle endpoint with a previous reading *)
C14_Witness ==
    \E c \in BagToSet(calls) :
        /\ TextReply(c)
        /\ c.handler = "bottle"
        /\ c.previousLog # None
        /\ ReplyText(c) = <<"prose">>
        /\ Degraded(c)
        /\ c.response[1].body.summary = <<ParseFailPrefix, "prose">>

(* C14 as stated: the summary of that record equals the reply text. *)
C14_SummaryIsReplyText ==
    \A c \in BagToSet(calls) :
        (TextReply(c) /\ Parsed(c).kind = "throws") =>
            /\ Degraded(c)
            /\ c.response[1].body.summary = ReplyText(c)

(* C15: whatever text the vision model replies, also JSON that is not an  *)
(* object (null, a number), the endpoint answers with a record, defaulted  *)
(* or degraded, and never with an error.                                   *)
C15_EveryReplyTextNormalized ==
    \A c \in BagToSet(calls) :
        TextReply(c) =>
            /\ c.response[1].status = 200
            /\ "error" \notin DOMAIN c.response[1].body

(* the number of tokens tok among the first n tokens of text *)
Count(text, tok, n) == Cardinality({i \in 1..n : text[i] = tok})

(* the first balanced brace block of a text: from the first "{" to the     *)
(* nearest "}" at which as many braces were closed as opened; None when    *)
(* there is none                                                           *)
FirstBalanced(text) ==
    LET opens  == {i \in 1..Len(text) : text[i] = "{"}
        first  == CHOOSE i \in opens : \A k \in opens : i <= k
        closes == {j \in 1..Len(text) :
                      /\ j > first
                      /\ text[j] = "}"
                      /\ Count(text, "{", j) = Count(text, "}", j) - Count(text, "}", first)}
        close  == CHOOSE j \in closes : \A k \in closes : j <= k
    IN  IF opens = {} \/ closes = {} THEN None
        ELSE Some(SubSeq(text, first, close))

Unfenced(text) == \A i \in 1..Len(text) : text[i] \notin {"fence json", "fence"}

(* C16: from an unfenced reply in which prose surrounds a JSON object the  *)
(* first balanced brace block is parsed: also when a "}" follows later in  *)
(* the text, the record returned is that of the first object.              *)
C16_FirstBalancedBlockParsed ==
    \A c \in BagToSet(calls) :
        ( /\ TextReply(c)
          /\ Unfenced(ReplyText(c))
          /\ FirstBalanced(ReplyText(c)) # None
          /\ JsonParse(FirstBalanced(ReplyText(c))[1]).kind = "value" ) =>
            LET obj  == JsonParse(FirstBalanced(ReplyText(c))[1]).value
                body == c.response[1].body
            IN  /\ "error" \notin DOMAIN body
                /\ \A f \in SchemaFields(c.handler) : body[f] = Field(obj, f)
                /\ body.isRelevant = OrFalse(Field(obj, "isRelevant"))
                /\ body.summary = SummaryOf(obj)

(* ------------------------ bare-number extraction ----------------------- *)

(* a request to a bare-number endpoint answered after the upstream service *)
(* returned text                                                            *)
NumberReply(c) ==
    /\ c.handler \in {"vision", "number"}
    /\ c.response # None
    /\ c.outcome # None
    /\ \/ c.outcome[1].type = "text" /\ c.outcome[1].text # <<>>
       \/ c.outcome[1].type = "annotations" /\ c.outcome[1].descriptions # <<>>

(* the texts the endpoint extracts numbers from *)
ReadTexts(c) ==
    IF c.outcome[1].type = "text" THEN <<c.outcome[1].text>>
    ELSE c.outcome[1].descriptions

(* the digit runs of the texts, commas and white space stripped *)
RECURSIVE RunsOf(_)
RunsOf(texts) ==
    IF texts = <<>> THEN <<>>
    ELSE DigitRuns(CleanedText(Head(texts))) \o RunsOf(Tail(texts))

(* the greatest value among the runs *)
MaxRun(runs) == MaxOf([i \in 1..Len(runs) |-> DecimalValue(runs[i])])

RunsOfLength(runs, n) == SelectSeq(runs, LAMBDA r : Len(r) = n)

(* the greatest run of exactly four digits, else of exactly three, else of *)
(* exactly two, else the greatest run                                      *)
PreferredRun(runs) ==
    IF Len(RunsOfLength(runs, 4)) > 0 THEN MaxRun(RunsOfLength(runs, 4))
    ELSE IF Len(RunsOfLength(runs, 3)) > 0 THEN MaxRun(RunsOfLength(runs, 3))
    ELSE IF Len(RunsOfLength(runs, 2)) > 0 THEN MaxRun(RunsOfLength(runs, 2))
    ELSE MaxRun(runs)

(* C17: the number a bare-number endpoint returns is the greatest digit    *)
(* run of exactly four digits if there is one, else of three, else of two, *)
(* else the greatest run: a text with a four-digit run and a longer run    *)
(* returns the four-digit one.                                             *)
C17_FourDigitRunPreferred ==
    \A c \in BagToSet(calls) :
        ( /\ NumberReply(c)
          /\ "error" \notin DOMAIN c.response[1].body ) =>
            c.response[1].body.number = Some(PreferredRun(RunsOf(ReadTexts(c))))

(* C18: a bare-number endpoint answers NO_NUMBERS exactly when the text    *)
(* has no digit run; whenever it has one, also a counter that reads 0, a   *)
(* number is returned.                                                     *)
C18_NoNumbersIffNoDigitRun ==
    \A c \in BagToSet(calls) :
        NumberReply(c) =>
            LET body == c.response[1].body
                runs == RunsOf(ReadTexts(c))
            IN  /\ ("error" \in DOMAIN body /\ body.error = "NO_NUMBERS")
                      <=> Len(runs) = 0
                /\ Len(runs) > 0 =>
                      ("error" \notin DOMAIN body /\ body.number # None)

(* --------------------------- failure responses ------------------------- *)

(* the identifiers and statuses of the specification's table *)
StatedFailures ==
    { <<"NO_IMAGE", 400>>, <<"API_KEY_MISSING", 500>>, <<"API_KEY_INVALID", 403>>,
      <<"QUOTA_EXCEEDED", 429>>, <<"SAFETY_BLOCKED", 200>>, <<"IMAGE_TOO_LARGE", 413>>,
      <<"INVALID_REQUEST", 400>>, <<"NO_TEXT", 200>>, <<"NO_NUMBERS", 200>>,
      <<"SERVER_ERROR", 500>> }

(* those the bare-number endpoints return besides *)
FurtherFailures ==
    { <<"API_ERROR", 500>>, <<"INVALID_RESPONSE", 200>>, <<"VISION_ERROR", 200>> }

(* every response without success status carries an identifier, and every *)
(* identifier returned is in table with its status                         *)
FailuresWithin(table) ==
    \A c \in BagToSet(calls) :
        c.response # None =>
            LET r == c.response[1]
            IN  /\ r.status # 200 => "error" \in DOMAIN r.body
                /\ "error" \in DOMAIN r.body => <<r.body.error, r.status>> \in table

(* C20, as the code has it: every failure response of the four endpoints   *)
(* carries one of the identifiers of the table, or API_ERROR (500),        *)
(* INVALID_RESPONSE (200) or VISION_ERROR (200), with that status.         *)
C20_FailureIdentifiers == FailuresWithin(StatedFailures \cup FurtherFailures)

(* the upstream service refuses a bare-number request with 429: API_ERROR  *)
C20_Witness ==
    \E c \in BagToSet(calls) :
        /\ c.response # None
        /\ c.outcome = Some([type |-> "http", status |-> 429])
        /\ c.response[1].status = 500
        /\ c.response[1].body.error = "API_ERROR"

(* C20 as stated: no identifier outside the table is ever returned. *)
C20_StatedIdentifiersOnly == FailuresWithin(StatedFailures)

(* ----------------------- failures seen by the client ------------------- *)

(* a response without success status, or with an error member *)
IsFailure(response) ==
    response.status < 200 \/ response.status > 299 \/ "error" \in DOMAIN response.body

(* the step ends the scan whose call is c *)
Completes(c) == CopiesIn(c, calls') < CopiesIn(c, calls)

(* C19: a scan whose response has a status other than success, or a body   *)
(* with an error member (also with status 200), ends as a failure: no      *)
(* entry is appended, the log is unchanged and an error message is shown.  *)
C19_FailureLeavesLog ==
    [][ \A c \in BagToSet(calls) :
          (c.response # None /\ IsFailure(c.response[1]) /\ Completes(c)) =>
              /\ logs' = logs
              /\ ocrError' # "null"
              /\ isScanning' = FALSE ]_vars

(* a second scan blocked by the safety filter (status 200 with an error    *)
(* member) has ended: the message is shown, the log holds the first entry  *)
C19_Witness ==
    /\ logs = <<FirstLog>>
    /\ calls = EmptyBag
    /\ ocrError = "blocked"
    /\ ~isScanning

(* ----------------------- calls in flight at a time --------------------- *)

(* the calls that were started and have neither completed nor failed:      *)
(* handleConfirmPhotoTime is suspended at or resumable after its await     *)
Outstanding == BagCardinality(calls)

(* C21: at most one OCR call is outstanding in every reachable state.      *)
C21_AtMostOneOutstanding == Outstanding <= 1

(* ---------------------- every scan comes to an end --------------------- *)

(* the scan pipeline without the correction dialog *)
NextLive ==
    \/ HandleCameraScan
    \/ \E file \in Images : HandleImageCapture(file)
    \/ HandleImageCaptureNoFile
    \/ \E file \in Images, d \in PhotoDates, t \in PhotoTimes : ImageOnLoad(file, d, t)
    \/ \E v \in {None} \cup {Some(d) : d \in PhotoDates} : SetPhotoDate(v)
    \/ \E t \in PhotoTimes : SetPhotoTime(Some(t))
    \/ CloseTimeInputDialog
    \/ HandleConfirmPhotoTime
    \/ \E call \in BagToSet(calls), o \in Outcomes, t \in Timestamps : POST(call, o, t)
    \/ \E call \in BagToSet(calls) : ScanFailed(call)
    \/ \E call \in BagToSet(calls) : ScanNotRelevant(call)
    \/ \E call \in BagToSet(calls) : ScanRelevant(call)

(* the fetch of analyzeImage settles: the call returns or fails *)
FetchSettles ==
    \E call \in BagToSet(calls), o \in Outcomes, t \in Timestamps : POST(call, o, t)

(* the event loop resumes handleConfirmPhotoTime after its await *)
Resumes ==
    \E call \in BagToSet(calls) :
        ScanFailed(call) \/ ScanNotRelevant(call) \/ ScanRelevant(call)

(* every fetch settles, and every settled promise is resumed *)
SpecLive ==
    Init /\ [][NextLive]_vars /\ WF_vars(FetchSettles) /\ WF_vars(Resumes)

(* C22: every started scan resolves, provided its call returns or fails:   *)
(* the step that ends it sets the scanning flag to false and either        *)
(* appends exactly one entry or leaves the log and sets an error message;  *)
(* and whenever a call is outstanding or the flag is set, a state follows  *)
(* in which no call is outstanding and a state in which the flag is clear. *)
C22_ScanResolves ==
    /\ [][ \A c \in BagToSet(calls) : (c.response # None /\ Completes(c)) =>
              /\ isScanning' = FALSE
              /\ \/ /\ Len(logs') = Len(logs) + 1
                    /\ SubSeq(logs', 1, Len(logs)) = logs
                    /\ ocrError' = ocrError
                 \/ /\ logs' = logs
                    /\ ocrError' # "null" ]_vars
    /\ (Outstanding > 0) ~> (Outstanding = 0)
    /\ isScanning ~> ~isScanning

(* a first scan ended with an entry and a second one with a message *)
C22_Witness ==
    /\ Outstanding = 0
    /\ ~isScanning
    /\ Len(logs) = 1
    /\ ocrError # "null"
    /\ clock = 2

(* ---------------------- readings judged not relevant ------------------- *)

(* count and timestamp of the relevant entry nearest to the end of the log *)
NearestRelevant(ls) ==
    IF RelevantPositions(ls) = {} THEN None
    ELSE Some([bottles   |-> LastRelevant(ls).bottles,
               timestamp |-> LastRelevant(ls).timestamp])

(* the entry that the answered scan c stores when its request carries      *)
(* previous as the previous reading                                        *)
EntryAgainst(c, previous) ==
    LET again == ProcessedAt([c EXCEPT !.previousLog = previous], c.currentTime[1])
    IN  RelevantLog(again.response[1].body, again, clock)

(* C23: a reading judged not relevant is appended with isRelevant false,   *)
(* counts 0, rate 0, status unknown and its summary, and leaves the        *)
(* relevant view as it was; a relevant reading is stored with the rate and *)
(* status derived against the nearest relevant entry before it, the        *)
(* irrelevant entries in between playing no part.                          *)
C23_IrrelevantSkipped ==
    [][ \A c \in BagToSet(calls) :
          /\ ScanNotRelevant(c) =>
                LET e == logs'[Len(logs')] IN
                /\ Len(logs') = Len(logs) + 1
                /\ ~e.isRelevant
                /\ e.boxes = 0 /\ e.bottles = 0 /\ e.bpm = 0
                /\ e.status = "alsueopseum"
                /\ e.summary = ResultSummary(c.response[1].body)
                /\ RelevantLogs(logs') = RelevantLogs(logs)
          /\ ScanRelevant(c) =>
                logs'[Len(logs')] = EntryAgainst(c, NearestRelevant(logs)) ]_vars

(* a relevant reading after an irrelevant one: its rate is the one against *)
(* the first entry, 2500 bottles at 0:00                                   *)
C23_Witness ==
    /\ Len(logs) = 3
    /\ logs[1] = FirstLog
    /\ logs[2] = SkippedLog
    /\ logs[3].isRelevant
    /\ logs[3].bottles = 3000
    /\ logs[3].bpm = 17

(* ------------------ a correction while a call is outstanding ----------- *)

(* C24: a scan started on a log of one relevant entry and completed on it  *)
(* stores the rate derived against the count that entry holds when the     *)
(* reading is appended, also when the entry was corrected in between.      *)
C24_RateAgainstCorrectedCount ==
    [][ \A c \in BagToSet(calls) :
          (ScanRelevant(c) /\ c.previousLog # None /\ Len(logs) = 1) =>
              logs'[Len(logs')] = EntryAgainst(c, NearestRelevant(logs)) ]_vars

(* --------------------------- the scanning flag ------------------------- *)

(* C25: the scanning flag is true in every state in which an OCR call is   *)
(* outstanding and false in every state in which none is.                  *)
C25_ScanningIffOutstanding == isScanning <=> (Outstanding > 0)

(* ------------------------------ entry ids ------------------------------ *)

(* C26: all entries of the log have pairwise distinct ids.                 *)
C26_DistinctIds ==
    \A i, j \in 1..Len(logs) : logs[i].id = logs[j].id => i = j

(* --------------------- what a correction leaves alone ------------------ *)

(* the fields of an entry that no correction writes *)
SameFrame(old, new) ==
    /\ new.id = old.id
    /\ new.timestamp = old.timestamp
    /\ new.isRelevant = old.isRelevant
    /\ new.imageUrl = old.imageUrl
    /\ new.summary = old.summary

(* C27: no step changes the id, timestamp, isRelevant flag, image or       *)
(* summary of an entry of the log, so a correction changes boxes, bottles, *)
(* rate and status only; and no step changes an entry whose isRelevant is  *)
(* false in any field.                                                     *)
C27_CorrectionFrame ==
    [][ \A i \in 1..Len(logs) :
          /\ Len(logs') >= i
          /\ SameFrame(logs[i], logs'[i])
          /\ ~logs[i].isRelevant => logs'[i] = logs[i] ]_vars

(* ----------------------------- bottle counts --------------------------- *)

(* the counts that the endpoint reported for the reading of call c *)
ReportedBoxes(c) == c.response[1].body.boxCount
ReportedBottles(c) == c.response[1].body.bottleCount

(* the step ends the scan of call c with a relevant entry *)
StoresRelevant(c) ==
    /\ c.response # None
    /\ Completes(c)
    /\ Len(logs') = Len(logs) + 1
    /\ logs'[Len(logs')].isRelevant

(* the step is an accepted save of the correction dialog: the dialog       *)
(* closes and the input is emptied                                         *)
SavesCorrection ==
    /\ editingLog # None
    /\ ~Rejected(editValue)
    /\ editingLog' = None
    /\ editValue' = <<>>

(* C28: a relevant reading is stored with the reported bottle count when   *)
(* that is present and not zero, otherwise with 100 times its box count;   *)
(* an accepted correction stores the corrected box count and exactly 100   *)
(* times that as the bottle count, whatever was reported.                  *)
C28_BottleCount ==
    [][ /\ \A c \in BagToSet(calls) : StoresRelevant(c) =>
              LET e == logs'[Len(logs')] IN
              /\ e.boxes = IF ReportedBoxes(c) = None THEN 0 ELSE ReportedBoxes(c)[1]
              /\ e.bottles = IF ReportedBottles(c) # None /\ ReportedBottles(c)[1] # 0
                             THEN ReportedBottles(c)[1]
                             ELSE 100 * e.boxes
        /\ SavesCorrection =>
              \A i \in 1..Len(logs) : logs[i].id = editingLog[1] =>
                  /\ logs'[i].boxes = ParseInt(editValue)[1]
                  /\ logs'[i].bottles = 100 * ParseInt(editValue)[1] ]_vars

(* one entry keeps the reported 2500 bottles for 20 boxes, another was     *)
(* corrected to 40 boxes and holds 4000 bottles                            *)
C28_Witness ==
    \E i, j \in 1..Len(logs) :
        /\ logs[i].boxes = 20 /\ logs[i].bottles = 2500
        /\ logs[j].boxes = 40 /\ logs[j].bottles = 4000

(* ------------------------ checks before the call ----------------------- *)

(* the answered request c got this failure and the upstream service was    *)
(* not called for it                                                       *)
RefusedWith(c, status, error) ==
    /\ c.response[1].status = status
    /\ "error" \in DOMAIN c.response[1].body
    /\ c.response[1].body.error = error
    /\ c.outcome = None

(* C29: every endpoint answers a request without an image NO_IMAGE (400),  *)
(* with or without a configured key, and a request with an image and no    *)
(* key API_KEY_MISSING (500); in both cases the upstream service is not    *)
(* called.                                                                 *)
C29_ChecksBeforeCall ==
    \A c \in BagToSet(calls) : c.response # None =>
        /\ c.image = "null" => RefusedWith(c, 400, "NO_IMAGE")
        /\ (c.image # "null" /\ ~c.apiKey) => RefusedWith(c, 500, "API_KEY_MISSING")

(* the bare-number endpoint answered a request with neither image nor key *)
(* NO_IMAGE, without calling out                                           *)
C29_Witness ==
    \E c \in BagToSet(calls) :
        /\ c.handler = "number"
        /\ c.image = "null"
        /\ ~c.apiKey
        /\ c.response # None
        /\ c.response[1].status = 400
        /\ c.outcome = None

(* ------------------- a photo captured during a scan -------------------- *)

(* a loaded photo is waiting in the time dialog for its confirmation *)
AwaitsConfirmation == showTimeInputDialog /\ capturedImage # "null"

(* C30: the entry appended by a scan carries the image, date and time that *)
(* were confirmed when its call was started; and the end of a scan, with   *)
(* an entry or with a failure, leaves a photo that is waiting in the time  *)
(* dialog as it is, with its image, date and time.                         *)
C30_ScanKeepsItsPhoto ==
    [][ \A c \in BagToSet(calls) : (c.response # None /\ Completes(c)) =>
          /\ Len(logs') = Len(logs) + 1 =>
                /\ logs'[Len(logs')].imageUrl = c.capturedImage
                /\ logs'[Len(logs')].timestamp = DateMs(c.photoDate, c.photoTime)
          /\ AwaitsConfirmation =>
                /\ AwaitsConfirmation'
                /\ capturedImage' = capturedImage
                /\ photoDate' = photoDate
                /\ photoTime' = photoTime ]_vars

====
